---- MODULE Spec2Model ----
(***************************************************************************)
(* Offline-resilience layer of Foam CRM Pro: the offline queue             *)
(* (services/offlineQueue.ts), the network-status monitor, the staged      *)
(* loader with its retry wrapper, and the optimistic status/inventory      *)
(* writes of App.tsx and components/Inventory.tsx.                         *)
(***************************************************************************)
EXTENDS Integers, Sequences, FiniteSets, TLC

(***************************************************************************)
(* Bounds of the model and constants of the program.                       *)
(***************************************************************************)
MaxOps == 2          \* how many operations are ever enqueued
MaxClock == 1        \* how far Date.now() advances
MaxDrains == 2       \* how many processQueue calls may be suspended at once
MAX_RETRIES == 3     \* offlineQueue.ts: const MAX_RETRIES = 3
MaxRetriesArg == 3   \* the largest retries argument of loadDataWithRetry tried
MaxCycles == 2       \* how many load cycles are ever started
MaxTasks == 2        \* how many handleStatusChange syncs may be pending at once
MaxSaves == 1        \* how many optimisticSave calls may be pending at once
MaxQuantity == 2     \* the largest inventory quantity
MaxEstimates == 2    \* how many estimates there are at most
MaxItems == 1        \* how many inventory items there are at most
MaxRows == 3         \* how many rows the realtime events grow a table to

None == "none"

(***************************************************************************)
(* State.                                                                  *)
(***************************************************************************)
VARIABLES
    localStorage,   \* the item stored under QUEUE_KEY: [has, val]
    clock,          \* Date.now()
    nextId,         \* source of fresh operation ids
    isOnline,       \* App state isOnline
    user,           \* App state user (TRUE = signed in)
    drains,         \* the processQueue activations, by slot
    failures,       \* history: rejected remote calls per operation id,
                    \* counted up to MAX_RETRIES + 1
    lastOnline,     \* history: what the last completed handleOnline did
    lastUpdate,     \* App state lastUpdate, a Date.now() timestamp
    toast,          \* the last showToast of the network monitor
    reloaded,       \* history: the last step was a reload of the page
    listed,         \* history: getQueue() as it was before that reload
    retry,          \* one activation of loadDataWithRetry on its own
    effectDeps,     \* [lastUpdate, user] at the last run of the load effect
    cycles,         \* the load cycles, in the order they were started
    started,        \* how many load cycles were started
    current,        \* the cycle of the last run of the effect, 0 if none
    settings,       \* App state settings
    customers,      \* App state customers
    estimates,      \* App state estimates
    inventory,      \* App state inventory
    initialLoadDone,\* App ref initialLoadDone
    isSyncing,      \* App state isSyncing
    dataLoadError,  \* App state dataLoadError: <<>> is null
    writtenBy,      \* history: which cycle wrote each collection and the
                    \* error last, and how many cycles were started then
    recentOptimisticIds, \* App ref recentOptimisticIds
    tasks,          \* the background syncs of handleStatusChange, by slot
    saves,          \* the optimisticSave activations, by slot
    savingIds,      \* Inventory state savingIds
    uncaught,       \* history: a realtime handler threw
    storageThrows   \* the methods of window.localStorage that throw now

onlineVars == <<lastOnline, lastUpdate, toast>>
queueVars == <<localStorage, clock, nextId, drains, failures, onlineVars>>
netVars == <<isOnline, user>>
reloadVars == <<reloaded, listed>>
retryVars == <<retry>>
loadVars == <<effectDeps, cycles, started, current, settings, customers,
              initialLoadDone, isSyncing, dataLoadError, writtenBy>>
dataVars == <<estimates, inventory>>
rtVars == <<uncaught, storageThrows>>
appVars == <<recentOptimisticIds, tasks, saves, savingIds, rtVars>>
vars == <<queueVars, netVars, reloadVars, retryVars, loadVars, dataVars,
          appVars>>

\* what the offline queue and the network monitor never touch
notQueue == <<retryVars, loadVars, dataVars, appVars>>

(***************************************************************************)
(* QueuedOperation and its JSON form.                                      *)
(***************************************************************************)
Operations == {"save", "delete"}
Collections == {"customers", "estimates", "inventory", "settings"}
\* payloads handed to queueOperation; "NaN" stands for a value JSON cannot carry
Payloads == {"p1", "NaN"}

\* the (operation, collection, data) triples the model enqueues
QueueInputs ==
    { <<"save", "customers", "p1">>, <<"save", "inventory", "NaN">>,
      <<"delete", "inventory", "p1">> }

\* JSON.stringify of a payload: a value JSON cannot carry is written as null
JSONstringifyData(data) == <<"json", IF data = "NaN" THEN "null" ELSE data>>

\* JSON.parse of a stored payload
JSONparseData(text) == text[2]

\* JSON.stringify(queue)
JSONstringify(queue) ==
    [i \in 1..Len(queue) |-> [queue[i] EXCEPT !.data = JSONstringifyData(@)]]

\* JSON.parse(stored)
JSONparse(stored) ==
    [i \in 1..Len(stored) |-> [stored[i] EXCEPT !.data = JSONparseData(@)]]

\* getQueue: parse the stored item, [] when there is none and [] from the
\* catch when localStorage.getItem throws
getQueue ==
    IF "getItem" \in storageThrows THEN <<>>
    ELSE IF localStorage.has THEN JSONparse(localStorage.val) ELSE <<>>

\* saveQueue that writes the newest operation only
saveQueue_lastOnly(queue) ==
    [has |-> TRUE,
     val |-> JSONstringify(IF queue = <<>> THEN <<>>
                           ELSE <<queue[Len(queue)]>>)]

\* saveQueue that leaves an empty list behind when setItem throws
saveQueue_truncates(queue) ==
    [has |-> TRUE,
     val |-> IF "setItem" \in storageThrows THEN <<>>
             ELSE JSONstringify(queue)]

\* saveQueue(queue): the value of localStorage after localStorage.setItem;
\* the item as it was when setItem throws into the catch
saveQueue(queue) ==
    IF "setItem" \in storageThrows THEN localStorage
    ELSE [has |-> TRUE, val |-> JSONstringify(queue)]

\* getQueueStatus().count
getQueueStatusCount == Len(getQueue)

\* a minimum that returns the largest number
MathMin_largest(numbers) ==
    CHOOSE x \in numbers : \A y \in numbers : x >= y

\* Math.min(...numbers), for at least one number
MathMin(numbers) ==
    CHOOSE x \in numbers : \A y \in numbers : x <= y

\* getQueueStatus(): null is <<>>, a timestamp t is <<t>>
getQueueStatus ==
    LET queue == getQueue
    IN  [count |-> Len(queue),
         oldestTimestamp |->
             IF Len(queue) > 0
             THEN <<MathMin({queue[i].timestamp : i \in 1..Len(queue)})>>
             ELSE <<>>]

Ids(queue) == {queue[i].id : i \in 1..Len(queue)}

\* a filter that drops the oldest entry, whatever its id
filterId_first(queue, operationId) ==
    IF queue = <<>> THEN <<>> ELSE Tail(queue)

RECURSIVE filterId(_, _)
\* queue.filter(op => op.id !== operationId)
filterId(queue, operationId) ==
    IF queue = <<>> THEN <<>>
    ELSE IF Head(queue).id # operationId
         THEN <<Head(queue)>> \o filterId(Tail(queue), operationId)
         ELSE filterId(Tail(queue), operationId)

(***************************************************************************)
(* processQueue: one activation per slot of drains.                        *)
(***************************************************************************)
\* the sync functions handleOnline passes to processQueue
AppSyncFunctions ==
    {"saveCustomer", "saveEstimate", "saveInventory", "saveSettings",
     "deleteCustomer", "deleteEstimate"}

\* the sets of sync functions processQueue is called with
SyncFunctionSets == {AppSyncFunctions, AppSyncFunctions \ {"saveCustomer"}}

\* the switch of processQueue that selects syncFn for op
selectSyncFn(op, syncFunctions) ==
    LET fn ==
            IF op.operation = "save"
            THEN CASE op.collection = "customers" -> "saveCustomer"
                   [] op.collection = "estimates" -> "saveEstimate"
                   [] op.collection = "inventory" -> "saveInventory"
                   [] op.collection = "settings" -> "saveSettings"
            ELSE CASE op.collection = "customers" -> "deleteCustomer"
                   [] op.collection = "estimates" -> "deleteEstimate"
                   [] OTHER -> None
    IN  IF fn \in syncFunctions THEN fn ELSE None

IdleDrain ==
    [pc |-> "idle", queue |-> <<>>, idx |-> 0, updatedQueue |-> <<>>,
     successCount |-> 0, failedCount |-> 0, syncFunctions |-> {},
     started |-> <<>>, fromOnline |-> FALSE]

\* the activation at the top of the for loop of processQueue
newDrain(queue, syncFunctions, fromOnline) ==
    [pc |-> "loop", queue |-> queue, idx |-> 1, updatedQueue |-> <<>>,
     successCount |-> 0, failedCount |-> 0, syncFunctions |-> syncFunctions,
     started |-> <<>>, fromOnline |-> fromOnline]

RECURSIVE runLoop_retries(_)
\* a loop that treats an operation without a sync function like a rejected
\* one: retry_count++ and kept for the next drain
runLoop_retries(d) ==
    IF d.idx > Len(d.queue) THEN [d EXCEPT !.pc = "end"]
    ELSE IF selectSyncFn(d.queue[d.idx], d.syncFunctions) = None
         THEN LET op == [d.queue[d.idx] EXCEPT !.retry_count = @ + 1]
              IN  runLoop_retries(
                      [d EXCEPT !.queue[d.idx] = op,
                                !.updatedQueue = Append(@, op),
                                !.failedCount = @ + 1, !.idx = @ + 1])
         ELSE [d EXCEPT !.pc = "await",
                        !.started = Append(@, d.queue[d.idx].id)]

RECURSIVE runLoop(_)
\* the for loop from d.idx up to its next call syncFn(op.data) (pc "await") or
\* its end (pc "end"): an operation without a sync function is counted failed
\* and skipped; started lists the ids whose remote call has been made
runLoop(d) ==
    IF d.idx > Len(d.queue) THEN [d EXCEPT !.pc = "end"]
    ELSE IF selectSyncFn(d.queue[d.idx], d.syncFunctions) = None
         THEN runLoop([d EXCEPT !.failedCount = @ + 1, !.idx = @ + 1])
         ELSE [d EXCEPT !.pc = "await",
                        !.started = Append(@, d.queue[d.idx].id)]

\* the body of the loop after await syncFn(op.data) resolved
onResolved(d) ==
    [d EXCEPT !.successCount = @ + 1, !.idx = @ + 1]

\* onRejected that keeps the failed operation whatever its retry_count
onRejected_noLimit(d) ==
    LET op == [d.queue[d.idx] EXCEPT !.retry_count = @ + 1]
    IN  [d EXCEPT !.queue[d.idx] = op,
                  !.updatedQueue = Append(@, op),
                  !.failedCount = @ + 1, !.idx = @ + 1]

\* onRejected with the failed operation put in front of updatedQueue
onRejected_unshift(d) ==
    LET op == [d.queue[d.idx] EXCEPT !.retry_count = @ + 1]
    IN  [d EXCEPT !.queue[d.idx] = op,
                  !.updatedQueue =
                      IF op.retry_count < MAX_RETRIES THEN <<op>> \o @ ELSE @,
                  !.failedCount = @ + 1, !.idx = @ + 1]

\* the catch block of the loop: retry_count++, kept while below MAX_RETRIES
onRejected(d) ==
    LET op == [d.queue[d.idx] EXCEPT !.retry_count = @ + 1]
    IN  [d EXCEPT !.queue[d.idx] = op,
                  !.updatedQueue =
                      IF op.retry_count < MAX_RETRIES THEN Append(@, op) ELSE @,
                  !.failedCount = @ + 1, !.idx = @ + 1]

(***************************************************************************)
(* Initial state: nothing stored, no activation, signed in or not, online  *)
(* or not (navigator.onLine).                                              *)
(***************************************************************************)
NoOnline == [user |-> FALSE, drained |-> FALSE, success |-> 0, failed |-> 0,
             refreshed |-> 0, seen |-> FALSE]

InitQueue ==
    /\ localStorage = [has |-> FALSE, val |-> <<>>]
    /\ clock = 0
    /\ nextId = 1
    /\ drains = [s \in 1..MaxDrains |-> IdleDrain]
    /\ failures = [id \in 1..MaxOps |-> 0]
    /\ lastOnline = NoOnline
    /\ lastUpdate = 0
    /\ toast = "none"
    /\ reloaded = FALSE
    /\ listed = <<>>

InitNet ==
    /\ isOnline \in BOOLEAN
    /\ user \in BOOLEAN

\* a step that is not a reload of the page
NoReload ==
    /\ reloaded' = FALSE
    /\ listed' = <<>>

(***************************************************************************)
(* The offline queue's exported operations.                                *)
(***************************************************************************)
\* Date.now() advances
Tick ==
    /\ clock < MaxClock
    /\ clock' = clock + 1
    /\ NoReload
    /\ UNCHANGED <<localStorage, nextId, drains, failures, onlineVars,
                   netVars, notQueue>>

\* a queueOperation that replaces the queued operation of the same kind on
\* the same collection
queueOperation_dedup(operation, collection, data) ==
    /\ nextId <= MaxOps
    /\ LET queue == getQueue
           newOp == [id |-> nextId, timestamp |-> clock,
                     operation |-> operation, collection |-> collection,
                     data |-> data, retry_count |-> 0]
           same(op) == op.operation = operation /\ op.collection = collection
           other(op) == ~same(op)
       IN  localStorage' = saveQueue(Append(SelectSeq(queue, other), newOp))
    /\ nextId' = nextId + 1
    /\ NoReload
    /\ UNCHANGED <<clock, drains, failures, onlineVars, netVars, notQueue>>

\* queueOperation(operation, collection, data)
queueOperation(operation, collection, data) ==
    /\ nextId <= MaxOps
    /\ LET queue == getQueue
           newOp == [id |-> nextId, timestamp |-> clock,
                     operation |-> operation, collection |-> collection,
                     data |-> data, retry_count |-> 0]
       IN  localStorage' = saveQueue(Append(queue, newOp))
    /\ nextId' = nextId + 1
    /\ NoReload
    /\ UNCHANGED <<clock, drains, failures, onlineVars, netVars, notQueue>>

\* removeFromQueue(operationId)
removeFromQueue(operationId) ==
    /\ localStorage' = saveQueue(filterId(getQueue, operationId))
    /\ NoReload
    /\ UNCHANGED <<clock, nextId, drains, failures, onlineVars, netVars,
                   notQueue>>

\* clearQueue()
clearQueue ==
    /\ localStorage' = IF "removeItem" \in storageThrows THEN localStorage
                       ELSE [has |-> FALSE, val |-> <<>>]
    /\ NoReload
    /\ UNCHANGED <<clock, nextId, drains, failures, onlineVars, netVars,
                   notQueue>>

(***************************************************************************)
(* processQueue and handleOnline / handleOffline.                          *)
(***************************************************************************)
\* what handleOnline does with the result of processQueue: it reports the
\* counts and calls setLastUpdate when result.success > 0
handleOnlineResume(success, failed) ==
    [user |-> TRUE, drained |-> TRUE, success |-> success, failed |-> failed,
     refreshed |-> IF success > 0 THEN 1 ELSE 0, seen |-> TRUE]

\* the last toast of handleOnline once it called processQueue and before
\* processQueue returned
syncingToast(fromOnline) == IF fromOnline THEN "Syncing" ELSE toast

\* saveQueue(updatedQueue) and the return of processQueue, with the rest of
\* handleOnline when it is the caller
processQueueReturn(d) ==
    /\ localStorage' = saveQueue(d.updatedQueue)
    /\ lastOnline' = IF d.fromOnline
                     THEN handleOnlineResume(d.successCount, d.failedCount)
                     ELSE lastOnline
    /\ lastUpdate' = IF d.fromOnline /\ d.successCount > 0 THEN clock
                     ELSE lastUpdate
    /\ toast' = IF ~d.fromOnline THEN toast
                ELSE IF d.failedCount > 0 THEN "Failed to sync"
                ELSE IF d.successCount > 0 THEN "Synced"
                ELSE toast

\* processQueue(syncFunctions) from its call to its first await, in slot s
processQueueCall(s, syncFunctions, fromOnline) ==
    LET queue == getQueue
        d == runLoop(newDrain(queue, syncFunctions, fromOnline))
    IN  IF Len(queue) = 0
        THEN /\ lastOnline' = IF fromOnline THEN handleOnlineResume(0, 0)
                                            ELSE lastOnline
             /\ toast' = syncingToast(fromOnline)
             /\ UNCHANGED <<localStorage, drains, lastUpdate>>
        ELSE IF d.pc = "end"
        THEN /\ processQueueReturn(d)
             /\ UNCHANGED drains
        ELSE /\ drains' = [drains EXCEPT ![s] = d]
             /\ toast' = syncingToast(fromOnline)
             /\ UNCHANGED <<localStorage, lastOnline, lastUpdate>>

\* the slots no activation holds
FreeSlots == {s \in 1..MaxDrains : drains[s].pc = "idle"}

\* the slot a new activation takes
FreeSlot == CHOOSE x \in FreeSlots : \A y \in FreeSlots : x <= y

\* processQueue called on its own
processQueue(syncFunctions) ==
    /\ FreeSlots # {}
    /\ processQueueCall(FreeSlot, syncFunctions, FALSE)
    /\ NoReload
    /\ UNCHANGED <<clock, nextId, failures, netVars, notQueue>>

\* the window's online event
handleOnline ==
    /\ ~isOnline
    /\ isOnline' = TRUE
    /\ user' = user
    /\ IF user
       THEN IF getQueueStatusCount > 0
            THEN /\ FreeSlots # {}
                 /\ processQueueCall(FreeSlot, AppSyncFunctions, TRUE)
            ELSE /\ lastOnline' = [user |-> TRUE, drained |-> FALSE,
                                   success |-> 0, failed |-> 0,
                                   refreshed |-> 1, seen |-> TRUE]
                 /\ lastUpdate' = clock
                 /\ toast' = "Connection restored"
                 /\ UNCHANGED <<localStorage, drains>>
       ELSE /\ lastOnline' = [NoOnline EXCEPT !.seen = TRUE]
            /\ toast' = "Connection restored"
            /\ UNCHANGED <<localStorage, drains, lastUpdate>>
    /\ NoReload
    /\ UNCHANGED <<clock, nextId, failures, notQueue>>

\* a handleOffline that also drops the offline queue
handleOffline_clears ==
    /\ isOnline
    /\ isOnline' = FALSE
    /\ toast' = "Working offline"
    /\ localStorage' = [has |-> FALSE, val |-> <<>>]
    /\ NoReload
    /\ UNCHANGED <<user, clock, nextId, drains, failures, lastOnline,
                   lastUpdate, notQueue>>

\* the window's offline event
handleOffline ==
    /\ isOnline
    /\ isOnline' = FALSE
    /\ toast' = "Working offline"
    /\ NoReload
    /\ UNCHANGED <<user, localStorage, clock, nextId, drains, failures,
                   lastOnline, lastUpdate, notQueue>>

\* await syncFn(op.data) settles in slot s, and processQueue runs on to its
\* next await or to its return
syncFnSettles(s, ok) ==
    /\ drains[s].pc = "await"
    /\ LET d0 == drains[s]
           id == d0.queue[d0.idx].id
           d == runLoop(IF ok THEN onResolved(d0) ELSE onRejected(d0))
       IN  /\ failures' = IF ok \/ failures[id] > MAX_RETRIES THEN failures
                          ELSE [failures EXCEPT ![id] = @ + 1]
           /\ IF d.pc = "end"
              THEN /\ processQueueReturn(d)
                   /\ drains' = [drains EXCEPT ![s] = IdleDrain]
              ELSE /\ drains' = [drains EXCEPT ![s] = d]
                   /\ UNCHANGED <<localStorage, onlineVars>>
    /\ NoReload
    /\ UNCHANGED <<clock, nextId, netVars, notQueue>>

\* supabase.auth.onAuthStateChange: sign-in or sign-out
onAuthStateChange ==
    /\ user' = ~user
    /\ NoReload
    /\ UNCHANGED <<isOnline, localStorage, clock, nextId, drains, failures,
                   onlineVars, notQueue>>

(***************************************************************************)
(* loadDataWithRetry(loadFn, retries, delay): an activation is a record;   *)
(* attempts, waits and errs are its history.                               *)
(***************************************************************************)
NoRetry ==
    [st |-> "idle", retries |-> 0, delay |-> 0, i |-> 0, attempts |-> 0,
     waits |-> <<>>, errs |-> <<>>, value |-> None, error |-> None]

\* the call: the for loop is entered and loadFn() is called with i = 0
retryCall(retries, delay) ==
    [NoRetry EXCEPT !.st = "call", !.retries = retries, !.delay = delay,
                    !.attempts = 1]

\* await loadFn() resolved: return its value
retryResolved(r, value) ==
    [r EXCEPT !.st = "resolved", !.value = value]

\* retryRejected that compares i with retries instead of retries - 1
retryRejected_offByOne(r, err) ==
    IF r.i = r.retries
    THEN [r EXCEPT !.st = "rejected", !.error = err, !.errs = Append(@, err)]
    ELSE [r EXCEPT !.st = "wait", !.errs = Append(@, err),
                   !.waits = Append(@, r.delay * (2 ^ r.i))]

\* await loadFn() rejected: rethrow on the last round, else set the timer of
\* delay * Math.pow(2, i)
retryRejected(r, err) ==
    IF r.i = r.retries - 1
    THEN [r EXCEPT !.st = "rejected", !.error = err, !.errs = Append(@, err)]
    ELSE [r EXCEPT !.st = "wait", !.errs = Append(@, err),
                   !.waits = Append(@, r.delay * (2 ^ r.i))]

\* the timer fired: i++ and loadFn() is called again
retryTimer(r) ==
    [r EXCEPT !.st = "call", !.i = @ + 1, !.attempts = @ + 1]

\* the delay arguments tried
Delays == {1000, 250}
Values == {"v1", "v2"}
Errors == {"e1", "e2"}

InitRetry ==
    retry \in {retryCall(n, d) : n \in 1..MaxRetriesArg, d \in Delays}

loadFnResolves(value) ==
    /\ retry.st = "call"
    /\ retry' = retryResolved(retry, value)
    /\ UNCHANGED <<queueVars, netVars, reloadVars, loadVars, dataVars,
                   appVars>>

loadFnRejects(err) ==
    /\ retry.st = "call"
    /\ retry' = retryRejected(retry, err)
    /\ UNCHANGED <<queueVars, netVars, reloadVars, loadVars, dataVars,
                   appVars>>

backoffElapses ==
    /\ retry.st = "wait"
    /\ retry' = retryTimer(retry)
    /\ UNCHANGED <<queueVars, netVars, reloadVars, loadVars, dataVars,
                   appVars>>

NextRetry ==
    \/ \E value \in Values : loadFnResolves(value)
    \/ \E err \in Errors : loadFnRejects(err)
    \/ backoffElapses

(***************************************************************************)
(* The staged loader: the effect of App on [lastUpdate, user].  Each run   *)
(* of the effect with a signed-in user is a load cycle with its own        *)
(* cancelled flag; the cleanup of a run sets the flag of that run.         *)
(* requested, merged, skipped and late are the history of a cycle.         *)
(***************************************************************************)
DEFAULT_SETTINGS == "DEFAULT_SETTINGS"
ServerSettings == "settings row"
ServerCustomers == <<[id |-> "c1"]>>
ServerEstimates ==
    <<[id |-> "e1", status |-> "DRAFT", inventoryDeducted |-> FALSE,
       setsRequiredOpen |-> 1],
      [id |-> "e2", status |-> "DRAFT", inventoryDeducted |-> FALSE,
       setsRequiredOpen |-> 0]>>
ServerInventory == <<[id |-> "i1", name |-> "open cell", quantity |-> 1]>>

\* what getSettings, getCustomers, getEstimates and getInventory resolve
\* with: the rows
FetchResults(coll) ==
    CASE coll = "settings" -> {ServerSettings}
      [] coll = "customers" -> {ServerCustomers}
      [] coll = "estimates" -> {ServerEstimates}
      [] coll = "inventory" -> {ServerInventory}

\* what getSettings, getCustomers, getEstimates and getInventory resolve
\* with when supabase reports an error: they log it and return the default
\* or the empty list
FetchFallback(coll) ==
    CASE coll = "settings" -> DEFAULT_SETTINGS
      [] coll = "customers" -> <<>>
      [] coll = "estimates" -> <<>>
      [] coll = "inventory" -> <<>>

\* the message of the error a fetch throws
FetchError(coll) == coll

NoTag == [by |-> 0, at |-> 0]

NoCycle ==
    [pc |-> "idle", cancelled |-> FALSE, isFirstLoad |-> FALSE,
     fetch |-> [coll \in Collections |-> NoRetry],
     requested |-> {}, merged |-> {}, skipped |-> {}, late |-> FALSE]

\* a merge that does not look at cancelled
live_always(cy) == TRUE

\* if (!cancelled)
live(cy) == ~cy.cancelled

\* the guarded set...() calls after an await: the results are merged, or
\* skipped when the cycle was cancelled
merge(c, cy, colls) ==
    IF live(cy)
    THEN [cy EXCEPT !.merged = @ \cup colls]
    ELSE [cy EXCEPT !.skipped = @ \cup colls,
                    !.late = @ \/ \E k \in colls : writtenBy[k].by > c]

\* loadDataWithRetry(get...) is called for each of colls; the activations
\* that returned before are gone
request(cy, colls, pc) ==
    [cy EXCEPT !.pc = pc, !.requested = @ \cup colls,
               !.fetch = [k \in Collections |->
                             IF k \in colls THEN retryCall(3, 1000)
                             ELSE IF @[k].st = "resolved" THEN NoRetry
                             ELSE @[k]]]

\* a loadData that requests every collection at once
loadData_allAtOnce(isFirstLoad) ==
    request([NoCycle EXCEPT !.isFirstLoad = isFirstLoad], Collections, "p1")

\* loadData() up to its first await: phase 1 requests the settings
loadData(isFirstLoad) ==
    request([NoCycle EXCEPT !.isFirstLoad = isFirstLoad], {"settings"}, "p1")

\* a fetch of the cycle resolved
resolved(cy, coll, value) ==
    [cy EXCEPT !.fetch[coll] = retryResolved(@, value)]

\* Promise.all of phase 2 resolved
bothResolved(cy) ==
    /\ cy.fetch["customers"].st = "resolved"
    /\ cy.fetch["estimates"].st = "resolved"

\* after phase 1: setSettings, then phase 2 requests customers and estimates
afterSettings(c, cy) ==
    request(merge(c, cy, {"settings"}), {"customers", "estimates"}, "p2")

\* after phase 2: setCustomers and setEstimates, then phase 3 requests the
\* inventory
afterPhase2(c, cy) ==
    request(merge(c, cy, {"customers", "estimates"}), {"inventory"}, "p3")

\* after phase 3: setInventory, and loadData returns
afterInventory(c, cy) ==
    request(merge(c, cy, {"inventory"}), {}, "done")

\* the load cycle as it stands after one load in which every fetch
\* resolved at once with the rows
LoadedCycle ==
    LET p1 == resolved(loadData(TRUE), "settings", ServerSettings)
        p2 == resolved(resolved(afterSettings(1, p1),
                                "customers", ServerCustomers),
                       "estimates", ServerEstimates)
        p3 == resolved(afterPhase2(1, p2), "inventory", ServerInventory)
    IN  afterInventory(1, p3)

\* App after construction: nothing loaded, the effect has not run
InitLoad ==
    /\ effectDeps = <<>>
    /\ started = 0
    /\ current = 0
    /\ writtenBy = [k \in Collections \cup {"error"} |-> NoTag]
    /\ cycles = [c \in 1..MaxCycles |-> NoCycle]
    /\ settings = DEFAULT_SETTINGS
    /\ customers = <<>>
    /\ estimates = <<>>
    /\ inventory = <<>>
    /\ initialLoadDone = FALSE
    /\ isSyncing = FALSE
    /\ dataLoadError = <<>>

\* App after its first load cycle resolved with the rows
InitLoaded ==
    /\ effectDeps = <<0, TRUE>>
    /\ started = 1
    /\ current = 1
    /\ writtenBy = [k \in Collections \cup {"error"} |->
                      IF k = "error" THEN NoTag ELSE [by |-> 1, at |-> 1]]
    /\ cycles = [c \in 1..MaxCycles |-> IF c = 1 THEN LoadedCycle ELSE NoCycle]
    /\ settings = ServerSettings
    /\ customers = ServerCustomers
    /\ estimates = ServerEstimates
    /\ inventory = ServerInventory
    /\ initialLoadDone = TRUE
    /\ isSyncing = FALSE
    /\ dataLoadError = <<>>

\* refreshData: setLastUpdate(Date.now())
refreshData ==
    /\ user
    /\ lastUpdate' = clock
    /\ NoReload
    /\ UNCHANGED <<localStorage, clock, nextId, drains, failures,
                   lastOnline, toast,
                   netVars, notQueue>>

\* the effect runs because lastUpdate or user changed: the cleanup of the
\* run before, then the body
loadEffect ==
    /\ effectDeps # <<lastUpdate, user>>
    /\ user => started < MaxCycles
    /\ effectDeps' = <<lastUpdate, user>>
    /\ LET cleaned == IF current = 0 THEN cycles
                      ELSE [cycles EXCEPT ![current].cancelled = TRUE]
       IN  IF user
           THEN /\ cycles' = [cleaned EXCEPT
                                 ![started + 1] = loadData(~initialLoadDone)]
                /\ started' = started + 1
                /\ current' = started + 1
                /\ isSyncing' = TRUE
                /\ dataLoadError' = <<>>
                /\ writtenBy' = [writtenBy EXCEPT !["error"] = NoTag]
           ELSE /\ cycles' = cleaned
                /\ current' = 0
                /\ UNCHANGED <<started, isSyncing, dataLoadError, writtenBy>>
    /\ NoReload
    /\ UNCHANGED <<queueVars, netVars, retryVars, settings, customers,
                   initialLoadDone, dataVars, appVars>>

\* a loadData that marks the initial load done after any merge
marksDone_anyPhase(got, cy) == got # {} /\ live(cy)

\* initialLoadDone.current = true: with setInventory, under if (!cancelled)
marksDone(got, cy) == "inventory" \in got /\ live(cy)

\* a fetch of cycle c resolves with value, and loadData runs on to its next
\* await or to its end
fetchResolves(c, coll, value) ==
    /\ cycles[c].pc \in {"p1", "p2", "p3"}
    /\ cycles[c].fetch[coll].st = "call"
    /\ LET cy == resolved(cycles[c], coll, value)
           got == CASE cy.pc = "p1" -> {"settings"}
                    [] cy.pc = "p2" -> IF bothResolved(cy)
                                       THEN {"customers", "estimates"}
                                       ELSE {}
                    [] cy.pc = "p3" -> {"inventory"}
           set(k, cur) == IF k \in got /\ live(cy) THEN cy.fetch[k].value
                          ELSE cur
       IN  /\ cycles' = [cycles EXCEPT ![c] =
                 CASE cy.pc = "p1" -> afterSettings(c, cy)
                   [] cy.pc = "p2" -> IF bothResolved(cy)
                                      THEN afterPhase2(c, cy) ELSE cy
                   [] cy.pc = "p3" -> afterInventory(c, cy)]
           /\ settings' = set("settings", settings)
           /\ customers' = set("customers", customers)
           /\ estimates' = set("estimates", estimates)
           /\ inventory' = set("inventory", inventory)
           /\ writtenBy' = [k \in DOMAIN writtenBy |->
                               IF k \in got /\ live(cy)
                               THEN [by |-> c, at |-> started]
                               ELSE writtenBy[k]]
           /\ initialLoadDone' = (initialLoadDone \/ marksDone(got, cy))
           /\ isSyncing' = IF cy.pc = "p3" /\ live(cy) THEN FALSE
                           ELSE isSyncing
    /\ NoReload
    /\ UNCHANGED <<queueVars, netVars, retryVars, effectDeps, started,
                   current, dataLoadError, appVars>>

\* a fetch of cycle c rejects: loadDataWithRetry waits, or it rethrows on
\* its last round and loadData runs its catch and its finally
fetchRejects(c, coll) ==
    /\ cycles[c].pc \in {"p1", "p2", "p3"}
    /\ cycles[c].fetch[coll].st = "call"
    /\ LET r == retryRejected(cycles[c].fetch[coll], FetchError(coll))
           cy == [cycles[c] EXCEPT !.fetch[coll] = r]
       IN  IF r.st = "rejected"
           THEN /\ cycles' = [cycles EXCEPT ![c] =
                      [cy EXCEPT !.pc = "done",
                                 !.fetch = [k \in Collections |-> NoRetry]]]
                /\ dataLoadError' = <<r.error>>
                /\ writtenBy' = [writtenBy EXCEPT
                                    !["error"] = [by |-> c, at |-> started]]
                /\ isSyncing' = IF live(cy) THEN FALSE ELSE isSyncing
           ELSE /\ cycles' = [cycles EXCEPT ![c] = cy]
                /\ UNCHANGED <<dataLoadError, writtenBy, isSyncing>>
    /\ NoReload
    /\ UNCHANGED <<queueVars, netVars, retryVars, effectDeps, started,
                   current, settings, customers, initialLoadDone, dataVars,
                   appVars>>

\* the backoff timer of a fetch of cycle c fires
fetchBackoffElapses(c, coll) ==
    /\ cycles[c].pc \in {"p1", "p2", "p3"}
    /\ cycles[c].fetch[coll].st = "wait"
    /\ cycles' = [cycles EXCEPT ![c].fetch[coll] = retryTimer(@)]
    /\ NoReload
    /\ UNCHANGED <<queueVars, netVars, retryVars, effectDeps, started,
                   current, settings, customers, initialLoadDone, isSyncing,
                   dataLoadError, writtenBy, dataVars, appVars>>

(***************************************************************************)
(* What AppContent returns once the auth check is over (authLoading is     *)
(* false): the screen, the indicators of the header and the data handed    *)
(* to the views.                                                           *)
(***************************************************************************)
\* App state dataLoading: useState(false), and setDataLoading is never called
dataLoading == FALSE

\* a render that waits for the first load behind a loading screen
render_blocking ==
    IF ~user
    THEN [screen |-> "Auth", banner |-> FALSE, syncing |-> FALSE,
          retry |-> FALSE, shown |-> <<>>]
    ELSE IF isSyncing /\ ~initialLoadDone
    THEN [screen |-> "Loading...", banner |-> FALSE, syncing |-> FALSE,
          retry |-> FALSE, shown |-> <<>>]
    ELSE [screen |-> "App",
          banner |-> ~initialLoadDone /\ isSyncing,
          syncing |-> isSyncing /\ isOnline,
          retry |-> dataLoadError # <<>>,
          shown |-> <<settings, customers, estimates, inventory>>]

\* the return of AppContent: the Auth screen without a user, otherwise the
\* app with the collections as they are now
render ==
    IF ~user
    THEN [screen |-> "Auth", banner |-> FALSE, syncing |-> FALSE,
          retry |-> FALSE, shown |-> <<>>]
    ELSE [screen |-> "App",
          banner |-> ~initialLoadDone /\ isSyncing,
          syncing |-> isSyncing /\ isOnline,
          retry |-> dataLoadError # <<>>,
          shown |-> <<settings, customers, estimates, inventory>>]

(***************************************************************************)
(* The user's writes: handleStatusChange of App and optimisticSave of the  *)
(* Inventory view.  Quantities are whole numbers, so toFixed(2) keeps      *)
(* them.  The estimates of the model have no closed-cell sets and no line  *)
(* items.                                                                  *)
(***************************************************************************)
JobStatus == {"DRAFT", "WORK_ORDER", "INVOICED", "PAID", "ARCHIVED"}

Max(a, b) == IF a >= b THEN a ELSE b

\* getEstimateInventoryDeductions(estimate, currentInventory)
getEstimateInventoryDeductions(estimate, currentInventory) ==
    IF /\ \E i \in 1..Len(currentInventory) :
              currentInventory[i].id = "1"
                \/ currentInventory[i].name = "open cell"
       /\ estimate.setsRequiredOpen > 0
    THEN LET i == CHOOSE i \in 1..Len(currentInventory) :
                      /\ currentInventory[i].id = "1"
                           \/ currentInventory[i].name = "open cell"
                      /\ \A j \in 1..(i - 1) :
                            ~(currentInventory[j].id = "1"
                                \/ currentInventory[j].name = "open cell")
         IN  <<[itemId |-> currentInventory[i].id,
                quantity |-> estimate.setsRequiredOpen]>>
    ELSE <<>>

\* applyEstimateInventoryChange(estimate, currentInventory, mode); details
\* is the number of detail lines
applyEstimateInventoryChange(estimate, currentInventory, mode) ==
    LET deductions == getEstimateInventoryDeductions(estimate,
                                                     currentInventory)
        entry(item) == {d \in 1..Len(deductions) :
                           deductions[d].itemId = item.id}
        changed(item) ==
            LET q == deductions[CHOOSE d \in entry(item) : TRUE].quantity
            IN  IF mode = "deduct"
                THEN [item EXCEPT !.quantity = Max(0, item.quantity - q)]
                ELSE [item EXCEPT !.quantity = item.quantity + q]
    IN  IF Len(deductions) = 0
        THEN [updatedInventory |-> currentInventory, details |-> 0]
        ELSE [updatedInventory |->
                  [i \in 1..Len(currentInventory) |->
                      IF entry(currentInventory[i]) = {}
                      THEN currentInventory[i]
                      ELSE changed(currentInventory[i])],
              details |-> Len(deductions)]

IdleTask == [pc |-> "idle", ids |-> {}, pending |-> {}]
IdleSave == [pc |-> "idle", id |-> None]

InitApp ==
    /\ recentOptimisticIds = {}
    /\ tasks = [t \in 1..MaxTasks |-> IdleTask]
    /\ saves = [s \in 1..MaxSaves |-> IdleSave]
    /\ savingIds = {}
    /\ uncaught = FALSE
    /\ storageThrows = {}

FreeTasks == {t \in 1..MaxTasks : tasks[t].pc = "idle"}
FreeTask == CHOOSE x \in FreeTasks : \A y \in FreeTasks : x <= y
FreeSaves == {s \in 1..MaxSaves : saves[s].pc = "idle"}
FreeSave == CHOOSE x \in FreeSaves : \A y \in FreeSaves : x <= y

\* handleStatusChange(est, newStatus) with est = estimates[e]: the state is
\* updated, saveEstimate and, when the inventory changed, saveFullInventory
\* are started; the pdf modal it opens is not modelled
handleStatusChange(e, newStatus) ==
    /\ e \in 1..Len(estimates)
    /\ FreeTasks # {}
    /\ LET est == estimates[e]
           deduct == newStatus = "WORK_ORDER" /\ ~est.inventoryDeducted
           restock == newStatus = "DRAFT" /\ est.inventoryDeducted
           change == applyEstimateInventoryChange(
                         est, inventory,
                         IF deduct THEN "deduct" ELSE "restock")
           inventoryChanged == (deduct /\ change.details > 0) \/ restock
           updatedEst == [est EXCEPT
                             !.status = newStatus,
                             !.inventoryDeducted =
                                 IF inventoryChanged THEN deduct ELSE @]
           updatedInventory == IF inventoryChanged
                               THEN change.updatedInventory ELSE inventory
           ids == {est.id} \cup (IF inventoryChanged
                                 THEN Ids(updatedInventory) ELSE {})
       IN  /\ \A i \in 1..Len(updatedInventory) :
                 updatedInventory[i].quantity <= MaxQuantity
           /\ recentOptimisticIds' = recentOptimisticIds \cup ids
           /\ estimates' = [i \in 1..Len(estimates) |->
                               IF estimates[i].id = est.id THEN updatedEst
                               ELSE estimates[i]]
           /\ inventory' = updatedInventory
           /\ tasks' = [tasks EXCEPT ![FreeTask] =
                 [pc |-> "sync", ids |-> ids,
                  pending |-> {"saveEstimate"} \cup
                      (IF inventoryChanged THEN {"saveFullInventory"}
                       ELSE {})]]
    /\ NoReload
    /\ UNCHANGED <<queueVars, netVars, retryVars, loadVars, saves,
                   savingIds, rtVars>>

\* a background save of task t settles, resolved or rejected alike; after
\* the last one the timer of 2000 ms is set
saveSettles(t, fn) ==
    /\ tasks[t].pc = "sync"
    /\ fn \in tasks[t].pending
    /\ tasks' = [tasks EXCEPT ![t] =
          [@ EXCEPT !.pending = @ \ {fn},
                    !.pc = IF tasks[t].pending = {fn} THEN "grace"
                           ELSE "sync"]]
    /\ NoReload
    /\ UNCHANGED <<queueVars, netVars, retryVars, loadVars, dataVars,
                   recentOptimisticIds, saves, savingIds, rtVars>>

\* a timer that forgets to delete the ids
graceElapses_keeps(t) ==
    /\ tasks[t].pc = "grace"
    /\ tasks' = [tasks EXCEPT ![t] = IdleTask]
    /\ NoReload
    /\ UNCHANGED <<queueVars, netVars, retryVars, loadVars, dataVars, saves,
                   savingIds, rtVars, recentOptimisticIds>>

\* the timer of task t fires: its ids leave recentOptimisticIds
graceElapses(t) ==
    /\ tasks[t].pc = "grace"
    /\ recentOptimisticIds' = recentOptimisticIds \ tasks[t].ids
    /\ tasks' = [tasks EXCEPT ![t] = IdleTask]
    /\ NoReload
    /\ UNCHANGED <<queueVars, netVars, retryVars, loadVars, dataVars, saves,
                   savingIds, rtVars>>

\* handleAdjust(item, delta) with item = inventory[i], and optimisticSave up
\* to its await
handleAdjust(i, delta) ==
    /\ i \in 1..Len(inventory)
    /\ FreeSaves # {}
    /\ LET item == inventory[i]
           rawNewQty == Max(0, item.quantity + delta)
           updatedItem == [item EXCEPT !.quantity = rawNewQty]
       IN  /\ rawNewQty <= MaxQuantity
           /\ inventory' = [k \in 1..Len(inventory) |->
                               IF inventory[k].id = updatedItem.id
                               THEN updatedItem ELSE inventory[k]]
           /\ savingIds' = savingIds \cup {updatedItem.id}
           /\ saves' = [saves EXCEPT ![FreeSave] =
                           [pc |-> "await", id |-> updatedItem.id]]
    /\ NoReload
    /\ UNCHANGED <<queueVars, netVars, retryVars, loadVars, estimates,
                   recentOptimisticIds, tasks, rtVars>>

\* await saveInventoryItem(updatedItem) settles: onRefresh() when it
\* rejected, and the id leaves savingIds
optimisticSaveSettles(s, ok) ==
    /\ saves[s].pc = "await"
    /\ lastUpdate' = IF ok THEN lastUpdate ELSE clock
    /\ savingIds' = savingIds \ {saves[s].id}
    /\ saves' = [saves EXCEPT ![s] = IdleSave]
    /\ NoReload
    /\ UNCHANGED <<localStorage, clock, nextId, drains, failures,
                   lastOnline, toast,
                   netVars, retryVars, loadVars, dataVars,
                   recentOptimisticIds, tasks, rtVars>>

(***************************************************************************)
(* The realtime channel: the postgres_changes handlers of App.  A payload  *)
(* is [table, eventType, new, old]; new and old are <<>> when the row is   *)
(* missing and <<row>> otherwise; a row that lacks an id has id = None.    *)
(***************************************************************************)
\* row?.id
rowId(row) == IF row = <<>> THEN None ELSE row[1].id

\* (payload.new as any)?.id || (payload.old as any)?.id
payloadId(payload) ==
    IF rowId(payload.new) # None THEN rowId(payload.new)
    ELSE rowId(payload.old)

\* mapInventoryPayload(row); the quantities are numbers
mapInventoryPayload(row) ==
    [id |-> row.id, name |-> row.name, quantity |-> row.quantity]

\* mapEstimatePayload(row)
mapEstimatePayload(row) ==
    [id |-> row.id,
     status |-> IF row.status = None THEN "DRAFT" ELSE row.status,
     inventoryDeducted |-> row.inventory_deducted,
     setsRequiredOpen |-> row.sets_required_open]

\* mapCustomerPayload(row)
mapCustomerPayload(row) == [id |-> row.id]

\* mapSettingsPayload(row)
mapSettingsPayload(row) ==
    IF row.company_name = None THEN DEFAULT_SETTINGS ELSE row.company_name

\* prev.some(i => i.id === id)
someId(prev, id) == \E i \in 1..Len(prev) : prev[i].id = id

\* an INSERT that does not look for the id
insertLast_noCheck(prev, newItem) == Append(prev, newItem)

\* INSERT of the inventory: the new item goes last unless its id is there
insertLast(prev, newItem) ==
    IF someId(prev, newItem.id) THEN prev ELSE Append(prev, newItem)

\* INSERT of the estimates and the customers: the new entity goes first
\* unless its id is there
insertFirst(prev, newItem) ==
    IF someId(prev, newItem.id) THEN prev ELSE <<newItem>> \o prev

\* an UPDATE that inserts the entity when its id is not there
replaceId_upsert(prev, updated) ==
    IF \E i \in 1..Len(prev) : prev[i].id = updated.id
    THEN [i \in 1..Len(prev) |->
             IF prev[i].id = updated.id THEN updated ELSE prev[i]]
    ELSE Append(prev, updated)

\* UPDATE: prev.map(i => i.id === updated.id ? updated : i)
replaceId(prev, updated) ==
    [i \in 1..Len(prev) |->
        IF prev[i].id = updated.id THEN updated ELSE prev[i]]

\* DELETE: prev.filter(i => i.id !== oldId)
removeId(prev, oldId) ==
    LET keep(x) == x.id # oldId
    IN  SelectSeq(prev, keep)

\* the handler of the inventory, estimates or customers table on prev: what
\* the collection becomes, and whether the handler threw
tableHandler(payload, prev) ==
    LET id == payloadId(payload)
        mapPayload(row) ==
            CASE payload.table = "inventory" -> mapInventoryPayload(row)
              [] payload.table = "estimates" -> mapEstimatePayload(row)
              [] payload.table = "customers" -> mapCustomerPayload(row)
        insert(list, newItem) ==
            IF payload.table = "inventory" THEN insertLast(list, newItem)
            ELSE insertFirst(list, newItem)
    IN  IF id # None /\ id \in recentOptimisticIds
        THEN [threw |-> FALSE, next |-> prev]
        ELSE IF payload.eventType \in {"INSERT", "UPDATE"}
                  /\ payload.new = <<>>
        THEN [threw |-> TRUE, next |-> prev]
        ELSE IF payload.eventType = "INSERT"
        THEN [threw |-> FALSE,
              next |-> insert(prev, mapPayload(payload.new[1]))]
        ELSE IF payload.eventType = "UPDATE"
        THEN [threw |-> FALSE,
              next |-> replaceId(prev, mapPayload(payload.new[1]))]
        ELSE IF payload.eventType = "DELETE" /\ rowId(payload.old) # None
        THEN [threw |-> FALSE, next |-> removeId(prev, rowId(payload.old))]
        ELSE [threw |-> FALSE, next |-> prev]

\* the handler of the settings table
settingsHandler(payload, prev) ==
    IF payload.eventType \in {"INSERT", "UPDATE"}
    THEN IF payload.new = <<>>
         THEN [threw |-> TRUE, next |-> prev]
         ELSE [threw |-> FALSE, next |-> mapSettingsPayload(payload.new[1])]
    ELSE [threw |-> FALSE, next |-> prev]

\* what the handler of the payload's table does to that table's state
handled(payload) ==
    CASE payload.table = "inventory" ->
            tableHandler(payload, inventory)
      [] payload.table = "estimates" ->
            tableHandler(payload, estimates)
      [] payload.table = "customers" ->
            tableHandler(payload, customers)
      [] payload.table = "settings" -> settingsHandler(payload, settings)

\* the channel delivers payload to the handler of its table
realtime(payload) ==
    /\ user
    /\ LET r == handled(payload)
           at(table, prev) == IF payload.table = table THEN r.next ELSE prev
       IN  /\ payload.table # "settings" => Len(r.next) <= MaxRows
           /\ inventory' = at("inventory", inventory)
           /\ estimates' = at("estimates", estimates)
           /\ customers' = at("customers", customers)
           /\ settings' = at("settings", settings)
           /\ uncaught' = (uncaught \/ r.threw)
           /\ UNCHANGED storageThrows
    /\ NoReload
    /\ UNCHANGED <<queueVars, netVars, retryVars, effectDeps, cycles,
                   started, current, initialLoadDone, isSyncing,
                   dataLoadError, writtenBy, recentOptimisticIds, tasks,
                   saves, savingIds>>

\* the rows the events carry
InventoryRows ==
    {[id |-> "i1", name |-> "open cell", quantity |-> 0],
     [id |-> "i2", name |-> "closed cell", quantity |-> 1]}
EstimateRows ==
    {[id |-> "e1", status |-> "PAID", inventory_deducted |-> FALSE,
      sets_required_open |-> 1],
     [id |-> "e3", status |-> None, inventory_deducted |-> FALSE,
      sets_required_open |-> 0]}
CustomerRows == {[id |-> "c2"]}
SettingsRows == {[id |-> "s1", company_name |-> "settings row 2"],
                 [id |-> "s1", company_name |-> None]}

\* the rows of a table
Rows(table) ==
    CASE table = "inventory" -> InventoryRows
      [] table = "estimates" -> EstimateRows
      [] table = "customers" -> CustomerRows
      [] table = "settings" -> SettingsRows

\* the events the server sends: an INSERT and an UPDATE carry the new row, a
\* DELETE the old one
WellFormedPayloads ==
    UNION {
        {[table |-> table, eventType |-> "INSERT", new |-> <<row>>,
          old |-> <<>>] : row \in Rows(table)}
        \cup {[table |-> table, eventType |-> "UPDATE", new |-> <<row>>,
               old |-> <<[id |-> row.id]>>] : row \in Rows(table)}
        \cup {[table |-> table, eventType |-> "DELETE", new |-> <<>>,
               old |-> <<[id |-> row.id]>>] : row \in Rows(table)}
        : table \in Collections}

\* a row that lacks its id
noId(row) == [row EXCEPT !.id = None]

\* the events whose new or old row is missing or lacks an id
MalformedPayloads ==
    UNION {
        {[table |-> table, eventType |-> eventType, new |-> <<>>,
          old |-> <<>>] : eventType \in {"INSERT", "UPDATE", "DELETE"}}
        \cup {[table |-> table, eventType |-> eventType,
               new |-> <<noId(row)>>, old |-> <<>>] :
                 eventType \in {"INSERT", "UPDATE"}, row \in Rows(table)}
        \cup {[table |-> table, eventType |-> "DELETE", new |-> <<>>,
               old |-> <<[id |-> None]>>]}
        : table \in Collections}

\* a reload of the page: every activation and all in-memory state is gone,
\* localStorage is what it was
reload ==
    /\ drains' = [s \in 1..MaxDrains |-> IdleDrain]
    /\ reloaded' = TRUE
    /\ listed' = getQueue
    /\ lastUpdate' = clock
    /\ effectDeps' = <<>>
    /\ started' = 0
    /\ current' = 0
    /\ writtenBy' = [k \in DOMAIN writtenBy |-> NoTag]
    /\ cycles' = [c \in 1..MaxCycles |-> NoCycle]
    /\ settings' = DEFAULT_SETTINGS
    /\ customers' = <<>>
    /\ estimates' = <<>>
    /\ inventory' = <<>>
    /\ initialLoadDone' = FALSE
    /\ isSyncing' = FALSE
    /\ dataLoadError' = <<>>
    /\ recentOptimisticIds' = {}
    /\ tasks' = [t \in 1..MaxTasks |-> IdleTask]
    /\ saves' = [x \in 1..MaxSaves |-> IdleSave]
    /\ savingIds' = {}
    /\ uncaught' = FALSE
    /\ UNCHANGED storageThrows
    /\ toast' = "none"
    /\ UNCHANGED <<localStorage, clock, nextId, failures, lastOnline, netVars,
                   retryVars>>

Init == InitQueue /\ InitNet /\ retry = NoRetry /\ InitLoad /\ InitApp

\* loadDataWithRetry on its own, with every retries and delay argument
InitRetrySpec == InitQueue /\ InitNet /\ InitRetry /\ InitLoad /\ InitApp

SpecRetry == InitRetrySpec /\ [][NextRetry]_vars

\* the offline queue under every interleaving of its exported operations
NextQueue ==
    \/ Tick
    \/ \E input \in QueueInputs : queueOperation(input[1], input[2], input[3])
    \/ \E id \in 1..MaxOps : removeFromQueue(id)
    \/ clearQueue
    \/ \E fns \in SyncFunctionSets : processQueue(fns)
    \/ \E s \in 1..MaxDrains, ok \in BOOLEAN : syncFnSettles(s, ok)

SpecQueue == Init /\ [][NextQueue]_vars

\* the exported operations of the offline queue alone, no drain running
NextOps ==
    \/ Tick
    \/ \E input \in QueueInputs : queueOperation(input[1], input[2], input[3])
    \/ \E id \in 1..MaxOps : removeFromQueue(id)
    \/ clearQueue

SpecOps == Init /\ [][NextOps]_vars

\* the methods of window.localStorage the queue calls
StorageMethods == {"getItem", "setItem", "removeItem"}

\* the browser starts or stops rejecting calls of localStorage (quota
\* exceeded, storage disabled): from now on exactly these methods throw
storageFault(methods) ==
    /\ methods # storageThrows
    /\ storageThrows' = methods
    /\ NoReload
    /\ UNCHANGED <<queueVars, netVars, retryVars, loadVars, dataVars,
                   recentOptimisticIds, tasks, saves, savingIds, uncaught>>

\* the exported operations of the offline queue over a localStorage that
\* rejects calls from time to time
NextStorage ==
    \/ Tick
    \/ \E input \in QueueInputs : queueOperation(input[1], input[2], input[3])
    \/ \E id \in 1..MaxOps : removeFromQueue(id)
    \/ clearQueue
    \/ \E methods \in SUBSET StorageMethods : storageFault(methods)

SpecStorage == Init /\ [][NextStorage]_vars

\* the offline queue across reloads of the page
NextReload ==
    \/ Tick
    \/ \E input \in QueueInputs : queueOperation(input[1], input[2], input[3])
    \/ reload

SpecReload == Init /\ [][NextReload]_vars

\* the network-status monitor over the offline queue
NextMonitor ==
    \/ \E input \in QueueInputs : queueOperation(input[1], input[2], input[3])
    \/ handleOnline
    \/ handleOffline
    \/ \E s \in 1..MaxDrains, ok \in BOOLEAN : syncFnSettles(s, ok)
    \/ onAuthStateChange

SpecMonitor == Init /\ [][NextMonitor]_vars

\* the staged loader under refreshes, sign-in and sign-out
InitLoadSpec == Init /\ isOnline

NextLoad ==
    \/ Tick
    \/ refreshData
    \/ onAuthStateChange
    \/ loadEffect
    \/ \E c \in 1..MaxCycles, coll \in Collections :
          \E value \in FetchResults(coll) : fetchResolves(c, coll, value)
    \/ \E c \in 1..MaxCycles, coll \in Collections : fetchRejects(c, coll)
    \/ \E c \in 1..MaxCycles, coll \in Collections :
          fetchBackoffElapses(c, coll)

SpecLoad == InitLoadSpec /\ [][NextLoad]_vars

\* a refresh of loaded data in which supabase may report errors, which the
\* get... functions swallow, or throw
NextLoadErr ==
    \/ Tick
    \/ refreshData
    \/ loadEffect
    \/ \E c \in 1..MaxCycles, coll \in Collections :
          \E value \in FetchResults(coll) \cup {FetchFallback(coll)} :
              fetchResolves(c, coll, value)
    \/ \E c \in 1..MaxCycles, coll \in Collections : fetchRejects(c, coll)
    \/ \E c \in 1..MaxCycles, coll \in Collections :
          fetchBackoffElapses(c, coll)

\* the user's writes on loaded data, online and offline
InitAppSpec ==
    /\ InitQueue
    /\ isOnline \in BOOLEAN
    /\ user = TRUE
    /\ retry = NoRetry
    /\ InitLoaded
    /\ InitApp

NextApp ==
    \/ \E e \in 1..MaxEstimates, newStatus \in JobStatus :
          handleStatusChange(e, newStatus)
    \/ \E t \in 1..MaxTasks, fn \in {"saveEstimate", "saveFullInventory"} :
          saveSettles(t, fn)
    \/ \E t \in 1..MaxTasks : graceElapses(t)
    \/ \E i \in 1..MaxItems, delta \in {-1, 1} : handleAdjust(i, delta)
    \/ \E s \in 1..MaxSaves, ok \in BOOLEAN : optimisticSaveSettles(s, ok)
    \/ handleOnline
    \/ handleOffline

SpecApp == InitAppSpec /\ [][NextApp]_vars

SpecLoadErr == InitAppSpec /\ [][NextLoadErr]_vars

\* the realtime channel on loaded data
InitRealtimeSpec == InitAppSpec /\ isOnline

NextRealtime ==
    \E payload \in WellFormedPayloads \cup MalformedPayloads :
        realtime(payload)

SpecRealtime == InitRealtimeSpec /\ [][NextRealtime]_vars

\* the update events for the entities the user writes
SyncPayloads ==
    {payload \in WellFormedPayloads :
        /\ payload.eventType = "UPDATE"
        /\ payload.table \in {"inventory", "estimates"}
        /\ payloadId(payload) \in {"i1", "e1"}}

\* the user's writes with the realtime channel delivering updates
NextSync ==
    \/ \E e \in 1..MaxEstimates, newStatus \in JobStatus :
          handleStatusChange(e, newStatus)
    \/ \E t \in 1..MaxTasks, fn \in {"saveEstimate", "saveFullInventory"} :
          saveSettles(t, fn)
    \/ \E t \in 1..MaxTasks : graceElapses(t)
    \/ \E i \in 1..MaxItems, delta \in {-1, 1} : handleAdjust(i, delta)
    \/ \E s \in 1..MaxSaves, ok \in BOOLEAN : optimisticSaveSettles(s, ok)
    \/ \E payload \in SyncPayloads : realtime(payload)

SpecSync == InitRealtimeSpec /\ [][NextSync]_vars

\* the same, where every background save settles and every timer fires
FairSync ==
    /\ \A t \in 1..MaxTasks :
          \A fn \in {"saveEstimate", "saveFullInventory"} :
              WF_vars(saveSettles(t, fn))
    /\ \A t \in 1..MaxTasks : WF_vars(graceElapses(t))

SpecSyncFair == InitRealtimeSpec /\ [][NextSync]_vars /\ FairSync

(***************************************************************************)
(* The offline queue: what a drain does to the persisted queue.            *)
(***************************************************************************)
\* the activation of slot s as it is when its pending call settles with ok
settled(s, ok) ==
    runLoop(IF ok THEN onResolved(drains[s]) ELSE onRejected(drains[s]))

\* the step is the return of the activation d, which replayed id and no longer
\* keeps it: id was in its snapshot, had a sync function, and is not in the
\* queue it writes (its call resolved, or its retry count reached the maximum)
ReplayedAndDropped(d, id) ==
    /\ d.pc = "end"
    /\ \E i \in 1..Len(d.queue) :
          /\ d.queue[i].id = id
          /\ selectSyncFn(d.queue[i], d.syncFunctions) # None
    /\ id \notin Ids(d.updatedQueue)

\* C1: an operation leaves the persisted queue only by removeFromQueue(id), by
\* clearQueue(), or at the return of a drain that replayed it and saw its call
\* resolve or its retry count reach MAX_RETRIES.
C1_LeavesOnlyByDrainRemoveClear ==
    [][\A id \in Ids(getQueue) :
          id \notin Ids(getQueue') =>
              \/ removeFromQueue(id)
              \/ clearQueue
              \/ \E s \in 1..MaxDrains, ok \in BOOLEAN :
                    /\ syncFnSettles(s, ok)
                    /\ ReplayedAndDropped(settled(s, ok), id)]_vars

\* C2: when a drain returns, an operation enqueued while it was suspended is
\* still in the persisted queue, and one removed while it was suspended is
\* still absent.
C2_NoLostUpdate ==
    [][\A s \in 1..MaxDrains :
          (drains[s].pc = "await" /\ drains'[s].pc = "idle") =>
              /\ \A id \in Ids(getQueue) \ Ids(drains[s].queue) :
                    id \in Ids(getQueue')
              /\ \A id \in Ids(drains[s].queue) \ Ids(getQueue) :
                    id \notin Ids(getQueue')]_vars

\* C5: no operation's remote call is rejected a 4th time: after MAX_RETRIES
\* failed replays the operation is gone and is not replayed again.
C5_NeverAFourthReplay ==
    \A id \in 1..MaxOps : failures[id] <= MAX_RETRIES

\* C4: every completed online transition (of a signed-in user) has triggered
\* exactly one refresh, whether or not the queue was drained.
C4_OnlineAlwaysRefreshes ==
    (lastOnline.seen /\ lastOnline.user) => lastOnline.refreshed = 1

AscendingIds(queue) ==
    \A i, j \in 1..Len(queue) : i < j => queue[i].id < queue[j].id

\* C6: after a reload that follows any sequence of enqueues, getQueue returns
\* what it returned before the reload: every operation enqueued, in enqueue
\* order, with the same fields and retry count 0.
C6_QueueSurvivesReload ==
    reloaded =>
        /\ getQueue = listed
        /\ Len(getQueue) = nextId - 1
        /\ \A i \in 1..Len(getQueue) :
              /\ getQueue[i].id = i
              /\ getQueue[i].retry_count = 0
              /\ <<getQueue[i].operation, getQueue[i].collection>> \in
                     {<<in[1], in[2]>> : in \in QueueInputs}

C6_Witness ==
    /\ reloaded
    /\ Len(getQueue) >= 2
    /\ getQueue[1].data # getQueue[2].data

\* C7: a drain calls the remote operations one at a time, oldest first: the
\* snapshot is in enqueue order, the calls made so far are in that order, the
\* call in flight is the only one pending and every earlier operation has
\* been counted; the operations kept, and the persisted queue, stay in order.
C7_DrainSequentialInOrder ==
    /\ AscendingIds(getQueue)
    /\ \A s \in 1..MaxDrains :
          drains[s].pc = "await" =>
              LET d == drains[s]
              IN  /\ AscendingIds(d.queue)
                  /\ \A i, j \in 1..Len(d.started) :
                        i < j => d.started[i] < d.started[j]
                  /\ d.started[Len(d.started)] = d.queue[d.idx].id
                  /\ d.successCount + d.failedCount = d.idx - 1
                  /\ AscendingIds(d.updatedQueue)
                  /\ \A id \in Ids(d.updatedQueue) :
                        \E i \in 1..(d.idx - 1) : d.queue[i].id = id

C7_Witness ==
    /\ Len(getQueue) = 2
    /\ getQueue[1].retry_count > 0
    /\ getQueue[2].retry_count > 0
    /\ \A s \in 1..MaxDrains : drains[s].pc = "idle"

(***************************************************************************)
(* loadDataWithRetry.                                                      *)
(***************************************************************************)
\* the waits before attempts 2..n: delay, 2 * delay, 4 * delay, ...
Backoff(delay, n) == [k \in 1..(n - 1) |-> delay * (2 ^ (k - 1))]

C3_OfflineWritesAreQueued ==
    [][(estimates' # estimates \/ inventory' # inventory) =>
          IF isOnline
          THEN tasks' # tasks \/ saves' # saves
          ELSE /\ getQueueStatusCount' = getQueueStatusCount + 1
               /\ tasks' = tasks
               /\ saves' = saves]_vars

(***************************************************************************)
(* The staged loader.                                                      *)
(***************************************************************************)
\* the collections a cycle is through with: merged, or discarded because
\* the cycle was superseded
passed(cy) == cy.merged \cup cy.skipped

\* the collections whose merge point cycle c passes in this step
passing(c) == passed(cycles[c])' \ passed(cycles[c])

\* what each collection holds once a cycle has merged it
Loaded(k) ==
    CASE k = "settings" -> settings = ServerSettings
      [] k = "customers" -> customers = ServerCustomers
      [] k = "estimates" -> estimates = ServerEstimates
      [] k = "inventory" -> inventory = ServerInventory

\* C9: in every load cycle the settings result is merged into state before
\* the customers and estimates fetches are requested, customers and
\* estimates are merged together and only when both fetches have resolved,
\* and the inventory fetch is requested only after that merge (a superseded
\* cycle discards a result where a live one merges it).
C9_PhaseOrder ==
    /\ [](\A c \in 1..MaxCycles :
            LET cy == cycles[c]
            IN  /\ cy.pc = "idle" => cy.requested = {}
                /\ cy.pc = "p1" =>
                      cy.requested = {"settings"} /\ passed(cy) = {}
                /\ cy.pc = "p2" =>
                      /\ cy.requested = {"settings", "customers", "estimates"}
                      /\ passed(cy) = {"settings"}
                /\ cy.pc = "p3" =>
                      /\ cy.requested = Collections
                      /\ passed(cy) = {"settings", "customers", "estimates"}
                /\ cy.pc = "done" =>
                      /\ passed(cy) \subseteq cy.requested
                      /\ "inventory" \in cy.requested =>
                            {"customers", "estimates"} \subseteq passed(cy)
                      /\ "customers" \in cy.requested =>
                            "settings" \in passed(cy)
                /\ \A k \in Collections :
                      /\ writtenBy[k].by = c => k \in cy.merged
                      /\ (k \in cy.merged /\ ~cy.cancelled) => Loaded(k))
    /\ [][\A c \in 1..MaxCycles :
            ({"customers", "estimates"} \cap passing(c) # {}) =>
                /\ {"customers", "estimates"} \subseteq passing(c)
                /\ {cycles[c].fetch["customers"].st,
                    cycles[c].fetch["estimates"].st} = {"resolved", "call"}]_vars

\* a live cycle whose phases 1 and 2 are merged waits for the inventory,
\* after the customers fetch was tried more often than the estimates fetch
C9_Witness ==
    \E c \in 1..MaxCycles :
        /\ cycles[c].pc = "p3"
        /\ ~cycles[c].cancelled
        /\ cycles[c].merged = {"settings", "customers", "estimates"}
        /\ cycles[c].fetch["inventory"].attempts = 2
        /\ settings = ServerSettings
        /\ customers = ServerCustomers
        /\ estimates = ServerEstimates
        /\ inventory = <<>>

\* C10: no result of a load cycle that arrives after a later cycle was
\* started is written to state: whatever a collection holds was written by
\* the cycle that was the latest one then, and the initial load is marked
\* done by such a cycle only.
C10_StaleCycleDiscarded ==
    /\ \A k \in Collections : writtenBy[k].by = writtenBy[k].at
    /\ \A c \in 1..MaxCycles :
          /\ (cycles[c].pc # "idle" /\ ~cycles[c].cancelled) => c = started
          /\ cycles[c].late => c < started
    /\ initialLoadDone => writtenBy["inventory"].by # 0

\* cycle 1 was superseded by cycle 2, cycle 2 loaded the inventory, and the
\* inventory of cycle 1 arrived after that and was discarded
C10_Witness ==
    /\ started = 2
    /\ cycles[1].pc = "done"
    /\ cycles[1].late
    /\ "inventory" \in cycles[1].skipped
    /\ cycles[2].pc = "done"
    /\ writtenBy["inventory"] = [by |-> 2, at |-> 2]
    /\ inventory = ServerInventory

settling(id) ==
    \/ \E t \in 1..MaxTasks :
          tasks[t].pc \in {"sync", "grace"} /\ id \in tasks[t].ids
    \/ \E s \in 1..MaxSaves : saves[s].pc = "await" /\ saves[s].id = id

\* C12: an update event for an entity delivered while a write of the user to
\* that entity (a status change, an inventory edit) is settling or within
\* its grace delay is discarded: estimates and inventory keep their values.
C12_EventsSuppressed ==
    [][\A payload \in SyncPayloads :
          (realtime(payload) /\ settling(payloadId(payload))) =>
              UNCHANGED dataVars]_vars

\* the ids of the entities of the model
EntityIds == {"e1", "e2", "i1"}

\* the entity with the id in a collection, as a set
entity(coll, id) == {coll[i] : i \in {j \in 1..Len(coll) : coll[j].id = id}}

\* C13: every id in recentOptimisticIds is there for a sync that has not
\* finished its grace delay, it leaves the set eventually, and an update
\* event for an entity whose id is not in the set is applied.
C13_SuppressionEnds ==
    /\ [](\A id \in recentOptimisticIds :
            \E t \in 1..MaxTasks :
                tasks[t].pc \in {"sync", "grace"} /\ id \in tasks[t].ids)
    /\ \A id \in EntityIds :
          (id \in recentOptimisticIds) ~> (id \notin recentOptimisticIds)
    /\ [][\A payload \in SyncPayloads :
            (realtime(payload) /\ payloadId(payload) \notin recentOptimisticIds)
                => /\ payload.table = "estimates" =>
                          entity(estimates', payloadId(payload))
                              = {mapEstimatePayload(payload.new[1])}
                   /\ payload.table = "inventory" =>
                          entity(inventory', payloadId(payload))
                              = {mapInventoryPayload(payload.new[1])}]_vars

\* a status change was synced, its grace delay is over, and the update
\* event for the estimate was applied after it
C13_Witness ==
    /\ recentOptimisticIds = {}
    /\ \A t \in 1..MaxTasks : tasks[t].pc = "idle"
    /\ estimates[2].status = "WORK_ORDER"
    /\ estimates[1].status = "PAID"
    /\ inventory[1].quantity = 0

(***************************************************************************)
(* The realtime channel on its own.                                        *)
(***************************************************************************)
\* no two entities of the collection have the same id
UniqueIds(coll) ==
    \A i, j \in 1..Len(coll) : coll[i].id = coll[j].id => i = j

\* the INSERT events that carry a row
InsertPayloads ==
    {payload \in WellFormedPayloads \cup MalformedPayloads :
        payload.eventType = "INSERT" /\ payload.new # <<>>}

\* the collection of a table
collection(table) ==
    CASE table = "inventory" -> inventory
      [] table = "estimates" -> estimates
      [] table = "customers" -> customers

\* C14: an INSERT event whose id is already in the collection of its table
\* leaves customers, estimates and inventory unchanged, and after any
\* sequence of events no collection holds two entities with the same id.
C14_InsertIdempotent ==
    /\ [](UniqueIds(customers) /\ UniqueIds(estimates)
            /\ UniqueIds(inventory))
    /\ [][\A payload \in InsertPayloads :
            (/\ payload.table # "settings"
             /\ realtime(payload)
             /\ someId(collection(payload.table), payload.new[1].id))
                => UNCHANGED <<customers, estimates, inventory>>]_vars

\* every table took the INSERT of a new row and holds each id once
C14_Witness ==
    /\ Len(inventory) = 2 /\ someId(inventory, "i2")
    /\ Len(estimates) = 3 /\ estimates[1].id = "e3"
    /\ Len(customers) = 2 /\ customers[1].id = "c2"

\* C20: no handler throws, and an event whose new or old row is missing or
\* lacks an id leaves settings, customers, estimates and inventory
\* unchanged.
C20_MalformedDropped ==
    /\ [](~uncaught)
    /\ [][\A payload \in MalformedPayloads :
            realtime(payload) =>
                UNCHANGED <<settings, customers, estimates, inventory>>]_vars

(***************************************************************************)
(* The staged loader when fetches fail.                                    *)
(***************************************************************************)
\* C15: no load cycle clears a collection or resets it to its default, and
\* a cycle that ends in a failed phase records a load error and leaves
\* settings, customers, estimates and inventory as they are in that step.
C15_FailedPhaseKeepsState ==
    [][/\ settings # DEFAULT_SETTINGS => settings' # DEFAULT_SETTINGS
       /\ customers # <<>> => customers' # <<>>
       /\ estimates # <<>> => estimates' # <<>>
       /\ inventory # <<>> => inventory' # <<>>
       /\ \A c \in 1..MaxCycles :
             (/\ cycles[c].pc \in {"p1", "p2", "p3"}
              /\ cycles'[c].pc = "done"
              /\ "inventory" \notin passed(cycles'[c])) =>
                 /\ dataLoadError' # <<>>
                 /\ UNCHANGED <<settings, customers, estimates,
                                inventory>>]_vars

(***************************************************************************)
(* The offline queue: its exported operations one by one.                  *)
(***************************************************************************)
\* C16: queueOperation adds exactly one entry, with retry_count 0, at the
\* end of the persisted queue and leaves the entries before it as they are,
\* also when an operation on the same collection and entity is queued.
C16_EnqueueAppendsOne ==
    [][nextId' # nextId =>
          LET before == getQueue
              after == getQueue'
          IN  /\ Len(after) = Len(before) + 1
              /\ SubSeq(after, 1, Len(before)) = before
              /\ after[Len(after)].id = nextId
              /\ after[Len(after)].retry_count = 0
              /\ after[Len(after)].timestamp = clock]_vars

\* two operations of the same kind on the same collection with the same
\* data are queued one after the other
C16_Witness ==
    /\ Len(getQueue) = 2
    /\ getQueue[1].id # getQueue[2].id
    /\ getQueue[1].operation = getQueue[2].operation
    /\ getQueue[1].collection = getQueue[2].collection
    /\ getQueue[1].data = getQueue[2].data
    /\ getQueue[1].retry_count > 0
    /\ getQueue[2].retry_count = 0

\* the queue removeFromQueue(id) persists when the persisted queue is q,
\* read back with getQueue
removed(q, id) == JSONparse(saveQueue(filterId(q, id)).val)

\* C17: removeFromQueue(id) on a queue without that id leaves the persisted
\* queue as it is; on a queue with it, the entry with that id goes and the
\* others stay in order; a second removeFromQueue(id) changes nothing.
C17_RemoveIdempotent ==
    /\ [](\A id \in 1..MaxOps :
            LET q == getQueue
                once == removed(q, id)
            IN  /\ id \notin Ids(q) => once = q
                /\ id \in Ids(q) =>
                       /\ Len(once) = Len(q) - 1
                       /\ once = SelectSeq(q, LAMBDA op : op.id # id)
                /\ id \notin Ids(once)
                /\ removed(once, id) = once)
    /\ [][\A id \in 1..MaxOps :
             removeFromQueue(id) => getQueue' = removed(getQueue, id)]_vars

\* the newer of two queued operations was removed: the queue holds the
\* older one only, although a newer id was handed out
C17_Witness ==
    /\ Len(getQueue) = 1
    /\ getQueue[1].id = 1
    /\ nextId > 2
    /\ \A s \in 1..MaxDrains : drains[s] = IdleDrain
    /\ lastOnline = NoOnline

\* C18: getQueueStatus() returns the length of the persisted queue as count
\* and the smallest timestamp in it as oldestTimestamp, null for the empty
\* queue; the queue is in ascending order of timestamp, so oldestTimestamp is
\* the timestamp of the first element of getQueue().
C18_StatusMatchesQueue ==
    LET q == getQueue
        status == getQueueStatus
    IN  /\ status.count = Len(q)
        /\ q = <<>> => status.oldestTimestamp = <<>>
        /\ q # <<>> =>
               /\ Len(status.oldestTimestamp) = 1
               /\ \A i \in 1..Len(q) :
                      status.oldestTimestamp[1] <= q[i].timestamp
               /\ \E i \in 1..Len(q) :
                      status.oldestTimestamp[1] = q[i].timestamp
               /\ \A i, j \in 1..Len(q) :
                      i < j => q[i].timestamp <= q[j].timestamp
               /\ status.oldestTimestamp = <<q[1].timestamp>>

\* two operations queued at different times are persisted, the older one
\* already retried by a drain
C18_Witness ==
    /\ Len(getQueue) = 2
    /\ getQueue[1].timestamp < getQueue[2].timestamp
    /\ getQueue[1].retry_count > 0
    /\ getQueueStatus = [count |-> 2,
                         oldestTimestamp |-> <<getQueue[1].timestamp>>]

(***************************************************************************)
(* The offline queue over a localStorage that throws.                      *)
(***************************************************************************)
\* the item stored under QUEUE_KEY, parsed, whatever getItem does now
persisted == IF localStorage.has THEN JSONparse(localStorage.val) ELSE <<>>

\* C19: when localStorage rejects a read or a write, queueOperation,
\* removeFromQueue, clearQueue and getQueueStatus still return (each has an
\* outcome and no exception escapes): a rejected read gives the empty queue
\* and the status of the empty queue, and a step whose write is rejected
\* leaves the stored item exactly as it was, so the operation being queued
\* is lost and nothing else is.
C19_StorageFailureSwallowed ==
    /\ [](/\ ~uncaught
          /\ ENABLED clearQueue
          /\ \A id \in 1..MaxOps : ENABLED removeFromQueue(id)
          /\ \A input \in QueueInputs :
                nextId <= MaxOps =>
                    ENABLED queueOperation(input[1], input[2], input[3])
          /\ "getItem" \in storageThrows =>
                 /\ getQueue = <<>>
                 /\ getQueueStatus = [count |-> 0, oldestTimestamp |-> <<>>]
          /\ "getItem" \notin storageThrows =>
                 /\ getQueue = persisted
                 /\ getQueueStatus.count = Len(persisted))
    /\ [][/\ ("setItem" \in storageThrows /\ nextId' # nextId) =>
                localStorage' = localStorage
          /\ \A id \in 1..MaxOps :
                ("setItem" \in storageThrows /\ removeFromQueue(id)) =>
                    localStorage' = localStorage
          /\ ("removeItem" \in storageThrows /\ clearQueue) =>
                localStorage' = localStorage
          /\ (storageThrows = StorageMethods) =>
                localStorage' = localStorage]_vars

\* two operations were handed to queueOperation, one is stored, and setItem
\* throws
C19_Witness ==
    /\ "setItem" \in storageThrows
    /\ nextId = 3
    /\ Len(persisted) = 1
    /\ persisted[1].id = 1

(***************************************************************************)
(* The realtime handlers: UPDATE and DELETE.                               *)
(***************************************************************************)
\* the well-formed UPDATE and DELETE events of the three entity tables
ChangePayloads ==
    {payload \in WellFormedPayloads :
        /\ payload.eventType \in {"UPDATE", "DELETE"}
        /\ payload.table # "settings"}

\* the entity an UPDATE event carries
updatedEntity(payload) ==
    CASE payload.table = "inventory" -> mapInventoryPayload(payload.new[1])
      [] payload.table = "estimates" -> mapEstimatePayload(payload.new[1])
      [] payload.table = "customers" -> mapCustomerPayload(payload.new[1])

\* C21: for an id that is not in recentOptimisticIds, an UPDATE event puts
\* the event's entity in the place of the entity with that id and a DELETE
\* event removes the entity with that id; the other entities keep their
\* values and their order, a collection without the id is unchanged (an
\* UPDATE never inserts), and the other collections are unchanged.
C21_UpdateDeleteById ==
    [][\A payload \in ChangePayloads :
          (realtime(payload) /\ payloadId(payload) \notin recentOptimisticIds)
          =>
          LET id == payloadId(payload)
              prev == collection(payload.table)
              next == collection(payload.table)'
              present == {i \in 1..Len(prev) : prev[i].id = id}
          IN  /\ present = {} => next = prev
              /\ payload.eventType = "UPDATE" =>
                     /\ Len(next) = Len(prev)
                     /\ \A i \in 1..Len(prev) :
                            next[i] = IF i \in present
                                      THEN updatedEntity(payload)
                                      ELSE prev[i]
              /\ payload.eventType = "DELETE" =>
                     /\ Len(next) = Len(prev) - Cardinality(present)
                     /\ next = SelectSeq(prev, LAMBDA x : x.id # id)
              /\ Cardinality(present) <= 1
              /\ \A table \in {"inventory", "estimates", "customers"} :
                     table # payload.table =>
                         collection(table)' = collection(table)
              /\ settings' = settings]_vars

\* an UPDATE replaced the loaded item i1 by the event's row and a DELETE
\* removed the loaded estimate e1, e2 staying where it was
C21_Witness ==
    /\ Len(inventory) = 1
    /\ inventory[1] = [id |-> "i1", name |-> "open cell", quantity |-> 0]
    /\ Len(estimates) = 1
    /\ estimates[1] = ServerEstimates[2]

(***************************************************************************)
(* Optimistic writes: local state first, then the remote save.             *)
(***************************************************************************)
\* C22: in the step that dispatches the remote save of a write of the user
\* (a status change, an inventory adjustment) the local state already shows
\* the new value and the id of the entity is in recentOptimisticIds, so no
\* save is in flight for an entity whose id was never put in the set.
C22_OptimisticBeforeSave ==
    [][/\ \A e \in 1..MaxEstimates, newStatus \in JobStatus :
             handleStatusChange(e, newStatus) =>
                 /\ estimates'[e].status = newStatus
                 /\ estimates[e].id \in recentOptimisticIds'
                 /\ \E t \in 1..MaxTasks :
                        /\ tasks[t] = IdleTask
                        /\ tasks'[t].pc = "sync"
                        /\ "saveEstimate" \in tasks'[t].pending
                        /\ tasks'[t].ids \subseteq recentOptimisticIds'
       /\ \A i \in 1..MaxItems, delta \in {-1, 1} :
             handleAdjust(i, delta) =>
                 /\ inventory'[i].quantity =
                        Max(0, inventory[i].quantity + delta)
                 /\ \E s \in 1..MaxSaves :
                        /\ saves[s] = IdleSave
                        /\ saves'[s].pc = "await"
                        /\ saves'[s].id = inventory[i].id
                 /\ inventory[i].id \in recentOptimisticIds']_vars

(***************************************************************************)
(* The network monitor going offline.                                      *)
(***************************************************************************)
\* C23: the step that takes isOnline from TRUE to FALSE shows the
\* working-offline toast and changes nothing else: the persisted queue, the
\* collections, dataLoadError and recentOptimisticIds stay as they are, no
\* processQueue activation starts or moves, and neither lastUpdate nor the
\* load cycles change, so no load is started.
C23_OfflineOnlyNotice ==
    [][(isOnline /\ ~isOnline') =>
          /\ toast' = "Working offline"
          /\ UNCHANGED <<localStorage, clock, nextId, drains, failures,
                         lastOnline, lastUpdate, user, retryVars, loadVars,
                         dataVars, appVars>>]_vars

\* the window went offline while a processQueue activation started by
\* handleOnline awaits a remote call, the queue still persisted
C23_Witness ==
    /\ ~isOnline
    /\ toast = "Working offline"
    /\ Len(getQueue) > 0
    /\ \E s \in 1..MaxDrains : drains[s].pc = "await" /\ drains[s].fromOnline

(***************************************************************************)
(* Rendering while the loader runs.                                        *)
(***************************************************************************)
\* C24: with a signed-in user AppContent renders the app with the current
\* settings, customers, estimates and inventory in every state of the load
\* cycles: before any fetch resolved, with a cycle in flight, failed or
\* superseded; dataLoading is never true.
C24_RenderNeverBlocked ==
    /\ ~dataLoading
    /\ user =>
          /\ render.screen = "App"
          /\ render.shown = <<settings, customers, estimates, inventory>>

\* the first cycle of a signed-in user is in flight and no fetch has
\* resolved, and the app is rendered with the empty collections
C24_Witness ==
    /\ user
    /\ ~initialLoadDone
    /\ isSyncing
    /\ \E c \in 1..MaxCycles :
          cycles[c].pc = "p1" /\ live(cycles[c]) /\ passed(cycles[c]) = {}
    /\ render.screen = "App"
    /\ render.banner
    /\ render.shown = <<DEFAULT_SETTINGS, <<>>, <<>>, <<>>>>

(***************************************************************************)
(* The staged loader: a superseded cycle that fails.                       *)
(***************************************************************************)
\* C25: when a cycle that was superseded (its effect was cleaned up) ends
\* because a fetch was rejected on its last attempt, dataLoadError stays as
\* it is; and whatever error is recorded was recorded by the cycle that was
\* the latest one then.
C25_StaleFailureIgnored ==
    /\ [](dataLoadError # <<>> =>
             writtenBy["error"].by = writtenBy["error"].at)
    /\ [][\A c \in 1..MaxCycles :
             (/\ cycles[c].cancelled
              /\ cycles[c].pc \in {"p1", "p2", "p3"}
              /\ cycles'[c].pc = "done")
                 => dataLoadError' = dataLoadError]_vars

(***************************************************************************)
(* processQueue: operations without a sync function.                       *)
(***************************************************************************)
\* the positions of the snapshot of drain d whose operation has no sync
\* function
noSyncFn(d) ==
    {i \in 1..Len(d.queue) :
        selectSyncFn(d.queue[i], d.syncFunctions) = None}

\* C26: an operation of a drain's snapshot for which the drain has no sync
\* function is counted failed, no remote call is made for it, its record
\* (retry_count included) is never changed, it is not put in updatedQueue,
\* and it is not in the persisted queue when the drain has written it.
C26_NoSyncFnDropped ==
    /\ [](\A s \in 1..MaxDrains :
            drains[s].pc = "await" =>
                LET d == drains[s]
                    seen == {i \in noSyncFn(d) : i < d.idx}
                IN  /\ \A i \in noSyncFn(d) :
                           /\ d.queue[i].id \notin Ids(d.updatedQueue)
                           /\ \A k \in 1..Len(d.started) :
                                  d.started[k] # d.queue[i].id
                    /\ d.failedCount >= Cardinality(seen)
                    /\ d.successCount + d.failedCount = d.idx - 1)
    /\ [][\A s \in 1..MaxDrains :
             LET d == drains[s]
                 e == drains'[s]
             IN  /\ (d.pc = "idle" /\ e.pc = "await") =>
                        \A i \in noSyncFn(e) : e.queue[i] = getQueue[i]
                 /\ (d.pc = "await" /\ e.pc = "await") =>
                        \A i \in noSyncFn(d) : e.queue[i] = d.queue[i]
                 /\ (d.pc = "await" /\ e.pc = "idle") =>
                        /\ \A i \in noSyncFn(d) :
                               /\ d.queue[i].id \notin Ids(getQueue')
                               /\ failures'[d.queue[i].id]
                                     = failures[d.queue[i].id]
                        /\ lastOnline'.failed >= Cardinality(noSyncFn(d))
                        /\ lastOnline'.success + lastOnline'.failed
                             = Len(d.queue)]_vars
    /\ [][(~isOnline /\ isOnline' /\ user /\ getQueue # <<>>
             /\ drains' = drains) =>
               /\ \A i \in 1..Len(getQueue) :
                      selectSyncFn(getQueue[i], AppSyncFunctions) = None
               /\ getQueue' = <<>>
               /\ lastOnline'.failed = Len(getQueue)
               /\ lastOnline'.success = 0
               /\ failures' = failures]_vars

\* a drain started by handleOnline over a delete on the inventory and a save
\* has returned: it counted the delete failed and the save synced, made one
\* remote call, none of them rejected, and the persisted queue is empty
C26_Witness ==
    /\ lastOnline.drained
    /\ lastOnline.failed = 1
    /\ lastOnline.success = 1
    /\ \A id \in 1..MaxOps : failures[id] = 0
    /\ \A s \in 1..MaxDrains : drains[s] = IdleDrain
    /\ localStorage.has
    /\ getQueue = <<>>

(***************************************************************************)
(* processQueue: the retry counts and the result.                          *)
(***************************************************************************)
\* C27: every operation in the persisted queue has a retry_count from 0 to
\* MAX_RETRIES - 1 = 2, and a drain over a snapshot of k operations returns
\* success + failed = k (while it runs, the two counts add up to the number
\* of operations it is past).
C27_RetryCountBelowMax ==
    /\ [](/\ \A i \in 1..Len(getQueue) :
                getQueue[i].retry_count \in 0..(MAX_RETRIES - 1)
          /\ \A s \in 1..MaxDrains :
                drains[s].pc = "await" =>
                    /\ drains[s].successCount + drains[s].failedCount
                         = drains[s].idx - 1
                    /\ drains[s].idx <= Len(drains[s].queue))
    /\ [][/\ \A s \in 1..MaxDrains :
              (drains[s].pc = "await" /\ drains'[s].pc = "idle") =>
                  /\ lastOnline'.drained
                  /\ lastOnline'.success + lastOnline'.failed
                       = Len(drains[s].queue)
          /\ (~isOnline /\ isOnline' /\ user /\ getQueue # <<>>
                /\ drains' = drains) =>
                  /\ lastOnline'.drained
                  /\ lastOnline'.success + lastOnline'.failed
                       = Len(getQueue)]_vars

\* an operation rejected by two drains is persisted with retry_count 2 and
\* the last drain reported it failed
C27_Witness ==
    /\ Len(getQueue) >= 1
    /\ getQueue[1].retry_count = MAX_RETRIES - 1
    /\ lastOnline.drained
    /\ lastOnline.failed >= 1
    /\ \A s \in 1..MaxDrains : drains[s] = IdleDrain

(***************************************************************************)
(* Overlapping drains.                                                     *)
(***************************************************************************)
\* the ids for which drain d has called its sync function
submitted(d) == {d.started[k] : k \in 1..Len(d.started)}

\* C28: at most one processQueue activation is in progress; no operation is
\* handed to the remote by two activations that overlap, and while one
\* activation awaits a remote call no other activation writes the queue.
C28_SingleDrain ==
    /\ [](/\ Cardinality({s \in 1..MaxDrains : drains[s].pc = "await"}) <= 1
          /\ \A s, t \in 1..MaxDrains :
                (s # t /\ drains[s].pc = "await" /\ drains[t].pc = "await")
                    => submitted(drains[s]) \cap submitted(drains[t]) = {})
    /\ [][\A s, t \in 1..MaxDrains :
             (/\ s # t
              /\ drains[s].pc = "await" /\ drains'[s].pc = "await"
              /\ drains[t].pc = "await" /\ drains'[t].pc = "idle")
                 => localStorage' = localStorage]_vars

(***************************************************************************)
(* Overlapping status changes on one estimate.                             *)
(***************************************************************************)
\* C29: the ids of a status change stay in recentOptimisticIds for as long
\* as its background saves have not all settled, also when the timer of an
\* earlier status change on the same estimate fires in the meantime.
C29_HeldWhileSyncInFlight ==
    \A t \in 1..MaxTasks :
        tasks[t].pc = "sync" => tasks[t].ids \subseteq recentOptimisticIds

(***************************************************************************)
(* The background-sync flag.                                               *)
(***************************************************************************)
\* C30: isSyncing is true only while a load cycle is in flight: in every
\* state in which each started cycle has run to its end, isSyncing is
\* false, whatever starts, supersessions, failures and sign-outs came
\* before.
C30_SyncingOnlyInFlight ==
    (\A c \in 1..MaxCycles : cycles[c].pc \in {"idle", "done"}) => ~isSyncing

====
